---------------------------- MODULE Spec2Model ----------------------------
(* A model of src/src/lib.rs: a doubly linked list of i32 built from       *)
(* Rc<RefCell<Node>> links, with push_back, get (bidirectional search)     *)
(* and len.                                                                *)
(*                                                                         *)
(* An Rc allocation is identified by its position in `heap` (allocations   *)
(* are never freed while the list lives).  Option<T> is a sequence of      *)
(* length at most one: None is <<>> and Some(x) is <<x>>.                  *)
EXTENDS Integers, Sequences, FiniteSets, TLC

\* ------------------------------------------------------------------ bounds
\* Largest number of nodes the model appends.
MaxSize == 6
\* The i32 payloads appended are 0 .. MaxValue.
MaxValue == 1
\* An index "far beyond" the size (20 * 20 in tests::test_out_of_bounds).
FarIndex == 400

Values == 0..MaxValue
Indices == (0..(MaxSize + 1)) \cup {FarIndex}

\* ------------------------------------------------------------------ Option
None == <<>>
Some(x) == <<x>>
is_some(o) == o # None

VARIABLES
    size,       \* List.size
    head,       \* List.head : Option<Link>
    tail,       \* List.tail : Option<Link>
    heap,       \* the Node held by each Rc<RefCell<Node>> allocated so far
    fault,      \* "none", or the panic that aborted the program
    op,         \* the last call: "new", "push_back", "get", "len", "drop"
    arg,        \* its argument (0 when it has none)
    ret,        \* its return value as an Option (None for unit)
    steps,      \* links followed by the last get
    from_head,  \* direction_from_head of the last get
    pushed,     \* history: the values appended so far, in call order
    freed       \* the allocations whose strong count has reached zero

vars == <<size, head, tail, heap, fault, op, arg, ret, steps, from_head, pushed,
          freed>>
list == <<size, head, tail, heap>>

\* ------------------------------------------------------------------ types
\* struct Node
Node(value, prev, next) == [value |-> value, prev |-> prev, next |-> next]

\* struct List, together with the allocations reachable from it
List(s, h, t, hp, f) == [size |-> s, head |-> h, tail |-> t, heap |-> hp, fault |-> f]

\* The list as the variables hold it.
self == List(size, head, tail, heap, fault)

\* Faulty variant of new: the count starts at one.
new_counts_one == List(1, None, None, <<>>, "none")

\* List::new
new == List(0, None, None, <<>>, "none")

\* RefCell::borrow_mut panics when any borrow of the cell is live.  `live`
\* is the sequence of cells whose guards are live at that program point.
borrow_mut_ok(live, cell) == \A i \in 1..Len(live) : live[i] # cell

\* ------------------------------------------------------------------ push_back
\* Faulty variant of new_node: the two links are swapped in the literal.
new_node_swapped(l, value) == Node(value, None, l.tail)

\* let node = Node { value, prev: self.tail.clone(), next: None };
new_node(l, value) == Node(value, l.tail, None)

\* Rc::new(RefCell::new(node)): a fresh allocation, identified by its index.
rc_new(l, node) == [l EXCEPT !.heap = Append(l.heap, node)]

\* The guards live when line 51 and line 53 call borrow_mut: both guards are
\* temporaries dropped at the end of their statement, and nothing else in
\* the program keeps a guard.
live_at_51(prev_tail, node) == <<>>
live_at_53(prev_tail, node) == <<>>

\* Faulty variant of push_some: line 55 is missing, tail keeps the old node.
push_some_keeps_tail(l, prev_tail, node) ==
    LET l1 == [l EXCEPT !.heap[prev_tail].next = Some(node)]
    IN  [l1 EXCEPT !.heap[node].prev = Some(prev_tail)]

\* Faulty variant of push_some: line 51 clones prev_tail instead of node.
push_some_wrong_next(l, prev_tail, node) ==
    LET l1 == [l EXCEPT !.heap[prev_tail].next = Some(prev_tail)]
        l2 == [l1 EXCEPT !.heap[node].prev = Some(prev_tail)]
    IN  [l2 EXCEPT !.tail = Some(node)]

\* Faulty variant of push_some: line 51 is missing, the old tail gets no next link.
push_some_no_next(l, prev_tail, node) ==
    LET l2 == [l EXCEPT !.heap[node].prev = Some(prev_tail)]
    IN  [l2 EXCEPT !.tail = Some(node)]

\* Faulty variant of push_some: line 53 clones node instead of prev_tail.
push_some_wrong_prev(l, prev_tail, node) ==
    LET l1 == [l EXCEPT !.heap[prev_tail].next = Some(node)]
        l2 == [l1 EXCEPT !.heap[node].prev = Some(node)]
    IN  [l2 EXCEPT !.tail = Some(node)]

\* Some(ref prev_tail) => { ... }
push_some(l, prev_tail, node) ==
    IF ~borrow_mut_ok(live_at_51(prev_tail, node), prev_tail)
    THEN [l EXCEPT !.fault = "BorrowMutError"]
    ELSE LET l1 == [l EXCEPT !.heap[prev_tail].next = Some(node)]
         IN  IF ~borrow_mut_ok(live_at_53(prev_tail, node), node)
             THEN [l1 EXCEPT !.fault = "BorrowMutError"]
             ELSE LET l2 == [l1 EXCEPT !.heap[node].prev = Some(prev_tail)]
                  IN  [l2 EXCEPT !.tail = Some(node)]

\* Faulty variant of push_none: lines 58 and 59 are swapped, tail is set from the
\* head before the head is.
push_none_swapped(l, node) ==
    IF l.head = None
    THEN [l EXCEPT !.fault = "unwrap_none"]
    ELSE [l EXCEPT !.tail = Some(l.head[1]), !.head = Some(node)]

\* Faulty variant of push_none: line 59 is missing, tail stays absent.
push_none_no_tail(l, node) == [l EXCEPT !.head = Some(node)]

\* None => { ... }
push_none(l, node) ==
    LET l1 == [l EXCEPT !.head = Some(node)]
    IN  IF l1.head = None
        THEN [l1 EXCEPT !.fault = "unwrap_none"]
        ELSE [l1 EXCEPT !.tail = Some(l1.head[1])]

\* Faulty variant of push_back: line 62 is missing, the count is not incremented.
push_back_no_count(l, value) ==
    LET l0 == rc_new(l, new_node(l, value))
        node == Len(l0.heap)
    IN  IF is_some(l0.tail)
        THEN push_some(l0, l0.tail[1], node)
        ELSE push_none(l0, node)

\* pub fn push_back(&mut self, value: i32)
push_back(l, value) ==
    LET l0 == rc_new(l, new_node(l, value))
        node == Len(l0.heap)
        l1 == IF is_some(l0.tail)
              THEN push_some(l0, l0.tail[1], node)
              ELSE push_none(l0, node)
    IN  IF l1.fault # "none" THEN l1 ELSE [l1 EXCEPT !.size = l1.size + 1]

\* ------------------------------------------------------------------ len
\* pub fn len(&self) -> usize
len(l) == l.size


\* ------------------------------------------------------------------ get
\* Faulty variant of out_of_range: > for >=.
out_of_range_gt(l, index) == index > len(l)

\* if index >= self.len() { return None; }
out_of_range(l, index) == index >= len(l)

\* Faulty variant of direction_from_head: the division by two is missing.
direction_always_head(l, index) == index <= l.size

\* Faulty variant of direction_from_head: < for <=.
direction_below_mid(l, index) == index < l.size \div 2

\* let direction_from_head = index <= self.size / 2;
direction_from_head(l, index) == index <= l.size \div 2

\* Faulty variant of step_count: the backward count is off by one.
step_count_off(l, index, dir) == IF dir THEN index ELSE l.size - index

\* let index = if direction_from_head { index } else { self.size - index - 1 };
\* (usize arithmetic: a negative difference is an overflow panic)
step_count(l, index, dir) == IF dir THEN index ELSE l.size - index - 1

\* Faulty variant of start_link: the two arms of the match are swapped.
start_link_swapped(l, dir) == IF dir THEN l.tail ELSE l.head

\* let mut current = match direction_from_head { true => head, false => tail }
\* with the unwrap of the chosen end.
start_link(l, dir) == IF dir THEN l.head ELSE l.tail

\* One iteration of the for loop: the link followed from `current`.
follow(l, current, dir) ==
    IF dir THEN l.heap[current].next ELSE l.heap[current].prev

\* for _ in 0..index { current = ...unwrap() }: the result of following n
\* links from `current`, with the number of links followed so far.
RECURSIVE walk(_, _, _, _, _)
walk(l, current, n, dir, followed) ==
    IF n = 0
    THEN [link |-> Some(current), steps |-> followed, fault |-> "none"]
    ELSE LET nxt == follow(l, current, dir)
         IN  IF nxt = None
             THEN [link |-> None, steps |-> followed, fault |-> "unwrap_none"]
             ELSE walk(l, nxt[1], n - 1, dir, followed + 1)

\* fn get_link_at(&self, index: usize) -> Option<Link>
get_link_at(l, index) ==
    IF out_of_range(l, index)
    THEN [link |-> None, steps |-> 0, from_head |-> TRUE, fault |-> "none"]
    ELSE LET dir == direction_from_head(l, index)
             n == step_count(l, index, dir)
             st == start_link(l, dir)
         IN  IF n < 0
             THEN [link |-> None, steps |-> 0, from_head |-> dir,
                   fault |-> "overflow"]
             ELSE IF st = None
             THEN [link |-> None, steps |-> 0, from_head |-> dir,
                   fault |-> "unwrap_none"]
             ELSE LET w == walk(l, st[1], n, dir, 0)
                  IN  [link |-> w.link, steps |-> w.steps, from_head |-> dir,
                       fault |-> w.fault]

\* Faulty variant of get: the lookup takes the next link out of the node it found
\* (Option::take for Option::as_ref).
get_take(l, index) ==
    LET r == get_link_at(l, index)
    IN  [ret |-> IF is_some(r.link) THEN Some(l.heap[r.link[1]].value) ELSE None,
         list |-> IF is_some(r.link)
                  THEN [l EXCEPT !.fault = r.fault, !.heap[r.link[1]].next = None]
                  ELSE [l EXCEPT !.fault = r.fault],
         steps |-> r.steps, from_head |-> r.from_head]

\* pub fn get(&self, index: usize) -> Option<i32>: the value returned, the
\* list it leaves behind and what the lookup did.
get(l, index) ==
    LET r == get_link_at(l, index)
    IN  [ret |-> IF is_some(r.link) THEN Some(l.heap[r.link[1]].value) ELSE None,
         list |-> [l EXCEPT !.fault = r.fault],
         steps |-> r.steps, from_head |-> r.from_head]

\* ------------------------------------------------------------------ machine
\* let mut list = List::new();
Init ==
    /\ size = new.size
    /\ head = new.head
    /\ tail = new.tail
    /\ heap = new.heap
    /\ fault = new.fault
    /\ op = "new"
    /\ arg = 0
    /\ ret = None
    /\ steps = 0
    /\ from_head = TRUE
    /\ pushed = <<>>
    /\ freed = {}

\* The list fields after a call that leaves the list `l`.
Store(l) ==
    /\ size' = l.size
    /\ head' = l.head
    /\ tail' = l.tail
    /\ heap' = l.heap
    /\ fault' = l.fault

\* list.push_back(value)
PushBack(value) ==
    /\ op # "drop"
    /\ fault = "none"
    /\ Len(pushed) < MaxSize
    /\ Store(push_back(self, value))
    /\ op' = "push_back"
    /\ arg' = value
    /\ ret' = None
    /\ steps' = 0
    /\ from_head' = TRUE
    /\ pushed' = Append(pushed, value)
    /\ UNCHANGED freed

\* list.get(index)
Get(index) ==
    /\ op # "drop"
    /\ fault = "none"
    /\ LET r == get(self, index)
       IN  /\ Store(r.list)
           /\ ret' = r.ret
           /\ steps' = r.steps
           /\ from_head' = r.from_head
    /\ op' = "get"
    /\ arg' = index
    /\ UNCHANGED <<pushed, freed>>

\* list.len()
LenCall ==
    /\ op # "drop"
    /\ fault = "none"
    /\ ret' = Some(len(self))
    /\ op' = "len"
    /\ arg' = 0
    /\ steps' = 0
    /\ from_head' = TRUE
    /\ UNCHANGED <<size, head, tail, heap, fault, pushed, freed>>

Next ==
    \/ \E value \in Values : PushBack(value)
    \/ \E index \in Indices : Get(index)
    \/ LenCall

Spec == Init /\ [][Next]_vars

\* ------------------------------------------------------------------ drop
\* Every Link is an Rc, so head, tail, prev and next each hold one strong
\* reference to the node they name: the strong count of allocation n.
strong_count(l, n) ==
    (IF l.head = Some(n) THEN 1 ELSE 0)
    + (IF l.tail = Some(n) THEN 1 ELSE 0)
    + Cardinality({m \in DOMAIN l.heap : l.heap[m].prev = Some(n)})
    + Cardinality({m \in DOMAIN l.heap : l.heap[m].next = Some(n)})

\* Dropping one Option<Link>: the strong count of its node goes down by one;
\* at zero the Node is dropped, which drops its prev and then its next, and
\* the allocation is freed.  d is [strong, freed].
RECURSIVE drop_link(_, _, _)
drop_link(l, d, o) ==
    IF o = None
    THEN d
    ELSE LET n == o[1]
             d1 == [d EXCEPT !.strong[n] = @ - 1]
         IN  IF d1.strong[n] > 0
             THEN d1
             ELSE LET d2 == [d1 EXCEPT !.freed = @ \cup {n}]
                      d3 == drop_link(l, d2, l.heap[n].prev)
                  IN  drop_link(l, d3, l.heap[n].next)

\* Dropping the List drops its fields in declaration order: head, then tail.
drop_list(l) ==
    LET d0 == [strong |-> [n \in DOMAIN l.heap |-> strong_count(l, n)],
               freed |-> {}]
    IN  drop_link(l, drop_link(l, d0, l.head), l.tail)

\* The list goes out of scope.
Drop ==
    /\ op # "drop"
    /\ fault = "none"
    /\ freed' = drop_list(self).freed
    /\ head' = None
    /\ tail' = None
    /\ op' = "drop"
    /\ arg' = 0
    /\ ret' = None
    /\ steps' = 0
    /\ from_head' = TRUE
    /\ UNCHANGED <<size, heap, fault, pushed>>

NextDrop ==
    \/ Next
    \/ Drop

\* The list used through its API and then dropped.
SpecDrop == Init /\ [][NextDrop]_vars


\* ------------------------------------------------------------------ claims
Min(a, b) == IF a <= b THEN a ELSE b

\* The nodes met by walking next links from `cur`, at most `fuel` of them.
RECURSIVE next_chain(_, _)
next_chain(cur, fuel) ==
    IF cur = None \/ fuel = 0
    THEN <<>>
    ELSE <<cur[1]>> \o next_chain(heap[cur[1]].next, fuel - 1)

\* The walk from head; it is cut one node past the number of allocations, so
\* a cycle shows as a walk longer than the heap.
ForwardChain == next_chain(head, Len(heap) + 1)

\* C1: after appending v0..v(n-1) to a new list, get(i) returns Some(v_i) for
\* every 0 <= i < n, both for the lookup the program made last and for every
\* lookup it could make now.
C1_GetReturnsAppended ==
    /\ \A i \in 0..(Len(pushed) - 1) : get(self, i).ret = Some(pushed[i + 1])
    /\ (op = "get" /\ arg < Len(pushed)) => ret = Some(pushed[arg + 1])

\* C1 witness: a lookup from the tail end returned the last of three or more
\* appended values, which differs from the first.
C1_Witness ==
    /\ op = "get"
    /\ Len(pushed) >= 3
    /\ arg = Len(pushed) - 1
    /\ ~from_head
    /\ ret = Some(pushed[arg + 1])
    /\ pushed[1] # pushed[arg + 1]

\* C2: a get with index >= the number of elements returns None, does not
\* fault, and leaves the list as it was.
C2_OutOfRangeIsNone ==
    [][(op' = "get" /\ arg' >= size)
          => (ret' = None /\ fault' = "none" /\ list' = list)]_vars

\* C2 witness: a lookup at or beyond the size of a non-empty list returned
\* None.
C2_Witness ==
    /\ op = "get"
    /\ size >= 1
    /\ arg >= size
    /\ ret = None
    /\ fault = "none"

\* C3: len() is the number of push_back calls made so far; each push_back
\* adds exactly one to the length and no other call changes it.
C3_LenCountsPushes ==
    /\ [](/\ len(self) = Len(pushed)
          /\ (op = "len" => ret = Some(Len(pushed))))
    /\ [][IF op' = "push_back" THEN len(self)' = len(self) + 1
                               ELSE len(self)' = len(self)]_vars

\* C3 witness: len() was called after three appends and returned 3.
C3_Witness ==
    /\ op = "len"
    /\ Len(pushed) = 3
    /\ ret = Some(3)

\* C4: a push_back leaves the value at every earlier index as it was.
C4_PushKeepsEarlier ==
    [][op' = "push_back"
          => \A i \in 0..(size - 1) :
                /\ is_some(get(self, i).ret)
                /\ get(self, i).ret' = get(self, i).ret]_vars

\* C4 witness: a push_back after which some earlier index is searched from
\* the head although it was searched from the tail before the append.
C4_Witness ==
    /\ op = "push_back"
    /\ fault = "none"
    /\ \E i \in 0..(size - 2) :
          /\ direction_from_head(self, i)
          /\ ~direction_from_head([self EXCEPT !.size = size - 1], i)

\* C5: between calls the links are symmetric: n.next is m exactly when
\* m.prev is n.
C5_LinkSymmetry ==
    \A n \in DOMAIN heap : \A m \in DOMAIN heap :
        (heap[n].next = Some(m)) <=> (heap[m].prev = Some(n))

\* C5 witness: an append onto a list that already had two nodes, so that the
\* list has adjacent pairs on both sides of a node.
C5_Witness ==
    /\ op = "push_back"
    /\ size >= 3
    /\ \E n \in DOMAIN heap : is_some(heap[n].next) /\ is_some(heap[n].prev)

\* C6: the list List::new returns is empty: size 0, head and tail absent,
\* len() is 0 and get(0) is None.
C6_NewIsEmpty ==
    /\ op = "new" => /\ size = 0
                     /\ head = None
                     /\ tail = None
                     /\ len(self) = 0
                     /\ get(self, 0).ret = None
                     /\ get(self, 0).list.fault = "none"
    /\ (pushed = <<>> /\ op = "len") => ret = Some(0)
    /\ (pushed = <<>> /\ op = "get" /\ arg = 0) => (ret = None /\ fault = "none")

\* C6 witness: get(0) was called on the list before any append.
C6_Witness ==
    /\ pushed = <<>>
    /\ op = "get"
    /\ arg = 0
    /\ ret = None

\* C7: push_back never faults: not the call made last, and not the call with
\* any value from the state the list is in.
C7_PushNeverFaults ==
    /\ op = "push_back" => fault = "none"
    /\ \A v \in Values : push_back(self, v).fault = "none"

\* C7 witness: both arms of push_back have run (onto the empty list, then
\* onto a non-empty one) without a fault.
C7_Witness ==
    /\ op = "push_back"
    /\ size >= 2
    /\ fault = "none"

\* C8: get and len leave size, head, tail and every node unchanged.
C8_ReadsArePure ==
    /\ [](\A i \in Indices : get(self, i).list = self)
    /\ [][op' \in {"get", "len"} => list' = list]_vars

\* C8 witness: an in-range lookup that followed links on a list of three or
\* more nodes.
C8_Witness ==
    /\ op = "get"
    /\ size >= 3
    /\ steps >= 1
    /\ is_some(ret)

\* C9: an in-range get follows min(index, size - index - 1) links.
C9_StepsAreNearerEnd ==
    (op = "get" /\ arg < size) => steps = Min(arg, size - arg - 1)

\* C10: the walk along next from head visits exactly size distinct nodes,
\* ends on the node tail references, and covers every node allocated.
C10_SizeIsChainLength ==
    LET c == ForwardChain
    IN  /\ Len(c) = size
        /\ \A i \in 1..Len(c) : \A j \in 1..Len(c) : c[i] = c[j] => i = j
        /\ tail = (IF Len(c) = 0 THEN None ELSE Some(c[Len(c)]))
        /\ {c[i] : i \in 1..Len(c)} = DOMAIN heap

\* C10 witness: a list of three or more nodes whose walk has been extended by
\* an append.
C10_Witness ==
    /\ op = "push_back"
    /\ size >= 3
    /\ Len(ForwardChain) = size

\* C11: head is absent exactly when size is 0, tail is absent exactly when
\* size is 0, and when both are present they reference the same node exactly
\* when size is 1.
C11_EndsMatchSize ==
    /\ (head = None) <=> (size = 0)
    /\ (tail = None) <=> (size = 0)
    /\ (is_some(head) /\ is_some(tail)) => ((head = tail) <=> (size = 1))

\* C11 witness: the append onto a one-node list, after which head and tail
\* first differ.
C11_Witness ==
    /\ op = "push_back"
    /\ size = 2
    /\ is_some(head)
    /\ is_some(tail)
    /\ head # tail

\* C12: in a non-empty list the head node has no prev link and the tail node
\* has no next link.
C12_EndsHaveNoOuterLink ==
    /\ is_some(head) => heap[head[1]].prev = None
    /\ is_some(tail) => heap[tail[1]].next = None

\* C12 witness: an append onto a non-empty list, so that the tail is a node
\* created with a prev link and the head a node that was given a next link.
C12_Witness ==
    /\ op = "push_back"
    /\ size >= 2
    /\ is_some(heap[head[1]].next)
    /\ is_some(heap[tail[1]].prev)
    /\ heap[head[1]].prev = None
    /\ heap[tail[1]].next = None

\* C13: an in-range lookup never unwraps an absent link: not the lookup made
\* last, and not the lookup of any index below size from the state the list
\* is in.
C13_InRangeNeverUnwrapsNone ==
    /\ (op = "get" /\ arg < size) => (fault = "none" /\ is_some(ret))
    /\ \A i \in 0..(size - 1) :
          /\ get_link_at(self, i).fault = "none"
          /\ is_some(get_link_at(self, i).link)

\* C13 witness: a lookup that started at the tail and followed a prev link.
C13_Witness ==
    /\ op = "get"
    /\ arg < size
    /\ ~from_head
    /\ steps >= 1
    /\ fault = "none"

\* C14: for every index below size, index next-links from head and
\* size - index - 1 prev-links from tail end on the same node, so the value
\* get returns does not depend on the direction.
C14_DirectionsAgree ==
    \A i \in 0..(size - 1) :
        LET fwd == walk(self, head[1], i, TRUE, 0)
            bwd == walk(self, tail[1], size - i - 1, FALSE, 0)
        IN  /\ is_some(fwd.link)
            /\ fwd.link = bwd.link
            /\ get(self, i).ret = Some(heap[fwd.link[1]].value)
            /\ get(self, i).ret = Some(heap[bwd.link[1]].value)

\* C14 witness: a lookup made from the tail on a list whose values differ, at
\* an index the walk from the head reaches over one or more links.
C14_Witness ==
    /\ op = "get"
    /\ arg < size
    /\ arg >= 1
    /\ ~from_head
    /\ walk(self, head[1], arg, TRUE, 0).link = walk(self, tail[1], steps, FALSE, 0).link
    /\ \E i \in 1..Len(pushed) : pushed[i] # pushed[arg + 1]

C16_OnlyTailNextChanges ==
    [][/\ \A n \in DOMAIN heap :
             /\ n \in DOMAIN heap'
             /\ heap'[n].value = heap[n].value
             /\ heap'[n].prev = heap[n].prev
             /\ heap'[n].next # heap[n].next =>
                   /\ op' = "push_back"
                   /\ tail = Some(n)
                   /\ heap[n].next = None
                   /\ heap'[n].next = Some(Len(heap) + 1)
       /\ op' = "push_back" =>
             /\ Len(heap') = Len(heap) + 1
             /\ heap'[Len(heap) + 1] = Node(arg', tail, None)
       /\ op' # "push_back" => heap' = heap]_vars

\* C16 witness: after three or more appends, a middle node holds the next
\* link it was given once and the prev link it was created with.
C16_Witness ==
    /\ op = "push_back"
    /\ size >= 3
    /\ \E n \in DOMAIN heap :
          /\ heap[n].next = Some(Len(heap))
          /\ is_some(heap[n].prev)
          /\ heap[n].value = pushed[n]

\* C18: once a push_back has been made the list is non-empty (size >= 1, both
\* ends present), a non-empty list stays non-empty, and size never decreases
\* from one state to the next.
C18_NeverEmptyAgain ==
    /\ [](Len(pushed) >= 1 => (size >= 1 /\ is_some(head) /\ is_some(tail)))
    /\ [][/\ size' >= size
          /\ (size >= 1 /\ is_some(head) /\ is_some(tail))
                => (size' >= 1 /\ is_some(head') /\ is_some(tail'))]_vars

\* C18 witness: a call other than push_back made on a list of two or more
\* nodes, which is still non-empty.
C18_Witness ==
    /\ op \in {"get", "len"}
    /\ Len(pushed) >= 2
    /\ size >= 2
    /\ is_some(head)
    /\ is_some(tail)

C17_NodesLiveAsLongAsList ==
    /\ op # "drop" =>
          /\ freed = {}
          /\ \A n \in DOMAIN heap : strong_count(self, n) >= 1
    /\ op = "drop" => freed = DOMAIN heap

=============================================================================
